---------------------------- MODULE Spec2Model ----------------------------
(***************************************************************************)
(* explorergame (src/main.go): one Player record shared, without locks,   *)
(* by five ticker-driven goroutines (updateTick, rpmMeterDonut,           *)
(* rpmSettingGauge, rudderAngleGauge, writeLines), by the button          *)
(* callbacks run on the event goroutine of termdash, and by main.         *)
(*                                                                         *)
(* float64 values are fixed-point integers: a value x is stored as        *)
(* x * Scale, and every float operation rounds its exact result to the    *)
(* nearest representable value (RDiv), as IEEE-754 arithmetic does on its *)
(* own, finer, grid.  A division by zero yields a non-finite value, kept  *)
(* in fpClass.                                                             *)
(***************************************************************************)
EXTENDS Integers, Sequences, FiniteSets, TLC

\* ------------------------------------------------------------- bounds
\* Spec: button presses, ticker firings and loop bodies in one run.
MaxCalls == 2
MaxFires == 2
\* SpecThrottle and SpecActuators: presses on "+ 10", on "- 10" and on "L",
\* ticker firings of updateTick.
MaxPlus == 21
MaxMinus == 2
MaxLeft == 15
MaxActuatorTicks == 1
\* SpecClassify: the largest velocity classified.
MaxVelocityIn == 160
\* SpecLag: the largest rpm the lag step is applied to.
MaxLagRpm == 205
\* SpecDrive: ticker firings of updateTick, those with a free jitter draw,
\* presses on "+ 10" and on "- 10".
MaxDriveTicks == 18
MaxFreeDraws == 7
MaxDrivePlus == 1
MaxDriveMinus == 2

\* ------------------------------------------------- float64 arithmetic
\* Fixed-point resolution of a float64 field: 1/Scale.  The grid holds the
\* rpm 0.445, from which a tick reading the setpoint -10 lands on -1.
Scale == 200

Abs(x) == IF x < 0 THEN -x ELSE x

\* n / d rounded to the nearest integer, halves away from zero (d # 0).
RDiv(n, d) ==
    LET q == (2 * Abs(n) + Abs(d)) \div (2 * Abs(d))
    IN  IF (n < 0) # (d < 0) THEN -q ELSE q

\* math.Max(math.Min(x, hi), lo) on finite values.
Clamp(x, lo, hi) ==
    LET m == IF x < hi THEN x ELSE hi
    IN  IF m > lo THEN m ELSE lo

\* int(x) of a finite float64: truncation toward zero.
IntOf(x) == IF x >= 0 THEN x \div Scale ELSE -((-x) \div Scale)

\* int(NaN) is implementation-specific in Go: the minimum int64 on amd64
\* (a negative number stands for it here), 0 on arm64.
IntOfNaN == {-(2 ^ 30), 0}

\* ---------------------------------------------------- program constants
MaxRpmSetting == 200
ThrottleStep == 10
MaxRudder == 70
RudderStepTimes10 == 25
InitRudder == 35
InitBuoyancy == 50
LagFactor == 5
DecayPerMille == 998
\* rand.Float64() * 0.004 lies in [0, 0.004): in 1/JitterDen, 0 .. JitterTop.
JitterDen == 10000
JitterTop == 39
\* 0.99 + rand.Float64() * 0.003 lies in [0.99, 0.993): DampLow .. DampTop.
DampDen == 10000
DampLow == 9900
DampTop == 9929
CriticalRpm == 140

\* The draws a model run takes: the two ends of each range.
JitterDraws == {0, JitterTop}
DampDraws == {DampLow, DampTop}

\* ------------------------------------------------------- the Player
VARIABLES
    position, turbineRpmSettingValue, turbineRpmActualValue, velocity,
    acceleration, rudderAngle, direction, directionAcceleration, buoyancy,
    buoyancyAcceleration,
    fpClass,        \* class of the float64 values the physical loop writes
    \* ---- context, process, goroutines
    cancelled,      \* ctx.Done() is closed
    procState,      \* "running", "exited" (main returned), "aborted" (panic)
    surfaceClosed,  \* t.Close() has run
    pc,             \* per loop: "start", "blocked", "tick", "returned"
    tickReady,      \* per loop: a tick is buffered in ticker.C
    message,        \* writeLines: its local variable message
    evPc,           \* event goroutine: "idle", "plusClamp", "minusClamp"
    \* ---- display sinks: the last value each one accepted
    displayOut, settingGaugeOut, donutOut, rudderGaugeOut, rolledOut,
    \* ---- history (not program state)
    calls, fires, nInc, nDec, nLeft, opLog, lateBody, rolledAt,
    rudderFrom, settingSeen, callFrom, lagOut,
    handed,         \* what a sampler last handed to its sink, and from what
    failed,         \* the loop whose sink returned an error, or "none"
    tickIn          \* what the last physical update started from

player == <<position, turbineRpmSettingValue, turbineRpmActualValue, velocity,
            acceleration, rudderAngle, direction, directionAcceleration,
            buoyancy, buoyancyAcceleration, fpClass>>
inert == <<position, direction, directionAcceleration, buoyancy,
           buoyancyAcceleration>>
physical == <<turbineRpmActualValue, velocity, acceleration, fpClass>>
runtime == <<cancelled, procState, surfaceClosed, pc, tickReady, message, evPc>>
sinks == <<displayOut, settingGaugeOut, donutOut, rudderGaugeOut, rolledOut>>
history == <<calls, fires, nInc, nDec, nLeft, opLog, lateBody, rolledAt,
             rudderFrom, settingSeen, callFrom, lagOut, handed, failed,
             tickIn>>
vars == <<player, runtime, sinks, history>>

Loops == {"updateTick", "rpmMeterDonut", "rpmSettingGauge", "rudderAngleGauge",
          "writeLines"}

\* ------------------------------------------------- the physical update
\* Line 112: a + (s - a) / ((a + 1) * 5).
LagDivisor(a) == (a + Scale) * LagFactor
\* Faulty variant: the factor 5 multiplies the quotient instead of the divisor.
LagStepWeakDivisor(s, a) == a + RDiv((s - a) * Scale * LagFactor, a + Scale)
LagStep(s, a) == a + RDiv((s - a) * Scale, LagDivisor(a))
\* Line 113: a * 0.998.
Decay(a) == RDiv(a * DecayPerMille, 1000)
\* Line 114: a + a * rand.Float64() * 0.004, the draw being j / JitterDen.
Jitter(a, j) == a + RDiv(a * j, JitterDen)
\* Line 117: a / 10.0.
Accel(a) == RDiv(a, 10)
\* Line 120: v + acc / 10.
Integrate(v, acc) == v + RDiv(acc, 10)
\* Line 121: v * (0.99 + rand.Float64() * 0.003), the factor being d / DampDen.
Damp(v, d) == RDiv(v * d, DampDen)
\* Lines 112-114 on finite values with a non-zero divisor.
NewRpm(s, a, j) == Jitter(Decay(LagStep(s, a)), j)
\* Faulty variant: the velocity is integrated with the acceleration of the
\* previous tick.
NewVelocityPreviousAcceleration(v, a, d) == Damp(Integrate(v, acceleration), d)
\* Lines 117-121.
NewVelocity(v, a, d) == Damp(Integrate(v, Accel(a)), d)

\* fmt.Sprintf("%06.1f", v): v rounded to one decimal, in tenths.
Format061(v) == RDiv(v * 10, Scale)
\* strconv.FormatFloat(v, 'f', 4, 64): v rounded to four decimals, in 1/10000.
FormatF4(v) == RDiv(v * 10000, Scale)

\* What the segment display is handed for the current velocity.
TextOf(class, v) ==
    [class |-> class, tenths |-> IF class = "finite" THEN Format061(v) ELSE 0]
VelocityText == TextOf(fpClass, velocity)

\* ------------------------------------------------- velocity classification
\* Faulty variant: the bound 10.0 taken inclusively.
VelocityLabelInclusive(v) ==
    IF v < 1 * Scale THEN "Stopped."
    ELSE IF v <= 10 * Scale THEN "Nearly Stopped."
    ELSE IF v < 50 * Scale THEN "Moving forward at low speed."
    ELSE IF v < 100 * Scale THEN "Moving forward."
    ELSE IF v < 150 * Scale THEN "Moving forward at high speed."
    ELSE "Full speed forward."

\* Lines 74-86, on a finite velocity.
VelocityLabel(v) ==
    IF v < 1 * Scale THEN "Stopped."
    ELSE IF v < 10 * Scale THEN "Nearly Stopped."
    ELSE IF v < 50 * Scale THEN "Moving forward at low speed."
    ELSE IF v < 100 * Scale THEN "Moving forward."
    ELSE IF v < 150 * Scale THEN "Moving forward at high speed."
    ELSE "Full speed forward."

\* Lines 73-86: the label, and the formatted velocity that every branch but
\* the last appends to it.  Every comparison with NaN is false, -Inf is
\* below and +Inf above every bound.
StatusMessage ==
    IF fpClass = "finite"
    THEN [label |-> VelocityLabel(velocity),
          hasValue |-> velocity < 150 * Scale,
          class |-> "finite",
          digits |-> IF velocity < 150 * Scale THEN FormatF4(velocity) ELSE 0]
    ELSE IF fpClass = "neginf"
    THEN [label |-> "Stopped.", hasValue |-> TRUE, class |-> "neginf",
          digits |-> 0]
    ELSE [label |-> "Full speed forward.", hasValue |-> FALSE,
          class |-> fpClass, digits |-> 0]

NoMessage == [label |-> "", hasValue |-> FALSE, class |-> "finite", digits |-> 0]
NoOp == [op |-> "none", from |-> 0]
NoneHanded == [by |-> "none", value |-> 0, tag |-> "none", class |-> "finite",
               field |-> 0]
NoTick == [done |-> FALSE, s |-> 0, a |-> 0, v |-> 0]

\* ------------------------------------------------------------ Init
\* Lines 198-209, 217, 225-229 and 345-351: the Player as main builds it, the
\* first segment-display write, and the five goroutines started.  The four
\* loops that only create their ticker wait in their select; writeLines has
\* still to compute its message.
PlayerWith(s, a, v) ==
    /\ position = <<0, 0, 0>>
    /\ turbineRpmSettingValue = s
    /\ turbineRpmActualValue = a
    /\ velocity = v
    /\ acceleration = 0
    /\ rudderAngle = InitRudder * Scale
    /\ direction = 0
    /\ directionAcceleration = 0
    /\ buoyancy = InitBuoyancy * Scale
    /\ buoyancyAcceleration = 0
    /\ fpClass = "finite"

PlayerInit == PlayerWith(0, 0, 0)

RuntimeInit ==
    /\ cancelled = FALSE
    /\ procState = "running"
    /\ surfaceClosed = FALSE
    /\ pc = [l \in Loops |-> IF l = "writeLines" THEN "start" ELSE "blocked"]
    /\ tickReady = [l \in Loops |-> FALSE]
    /\ message = NoMessage
    /\ evPc = "idle"
    /\ displayOut = [class |-> "finite", tenths |-> 0]
    /\ settingGaugeOut = -1
    /\ donutOut = [value |-> -1, color |-> "yellow"]
    /\ rudderGaugeOut = -1
    /\ rolledOut = NoMessage

HistoryWith(n, log) ==
    /\ calls = n
    /\ fires = 0
    /\ nInc = n
    /\ nDec = 0
    /\ nLeft = 0
    /\ opLog = log
    /\ lateBody = {}
    /\ rolledAt = [ticked |-> FALSE, class |-> "finite", v |-> 0]
    /\ rudderFrom = -1
    /\ settingSeen = 0
    /\ callFrom = IF n = 0 THEN 0 ELSE (n - 1) * ThrottleStep * Scale
    /\ lagOut = <<>>
    /\ handed = NoneHanded
    /\ failed = "none"
    /\ tickIn = NoTick

HistoryInit == HistoryWith(0, <<NoOp, NoOp>>)

Init == PlayerInit /\ RuntimeInit /\ HistoryInit

\* ------------------------------------------------ the select of a loop
\* Lines 91-98 (and 107-130, 139-147, 157-173, 182-190): loop l reaches its
\* select.  With both channels ready Go picks one of them at random; with
\* none ready the goroutine blocks.
Arrive(l) ==
    \/ /\ tickReady[l]
       /\ pc' = [pc EXCEPT ![l] = "tick"]
       /\ tickReady' = [tickReady EXCEPT ![l] = FALSE]
       /\ lateBody' = IF cancelled THEN lateBody \cup {l} ELSE lateBody
    \/ /\ cancelled
       /\ pc' = [pc EXCEPT ![l] = "returned"]
       /\ UNCHANGED <<tickReady, lateBody>>
    \/ /\ ~tickReady[l]
       /\ ~cancelled
       /\ pc' = [pc EXCEPT ![l] = "blocked"]
       /\ UNCHANGED <<tickReady, lateBody>>

\* panic(err) in a goroutine other than main: the process dies at once, no
\* deferred call of main runs.
Panic(l) ==
    /\ procState' = "aborted"
    /\ failed' = l
    /\ UNCHANGED <<pc, tickReady, lateBody, surfaceClosed>>

\* time.NewTicker(delay): the ticker of loop l fires.  A goroutine blocked in
\* its select takes the tick; otherwise the tick waits in the channel's
\* buffer of one, and a tick finding the buffer full is dropped.
TimerFire(l) ==
    /\ procState = "running"
    /\ pc[l] \in {"blocked", "tick"}
    /\ ~tickReady[l]
    /\ IF pc[l] = "blocked"
       THEN /\ pc' = [pc EXCEPT ![l] = "tick"]
            /\ tickReady' = tickReady
       ELSE /\ tickReady' = [tickReady EXCEPT ![l] = TRUE]
            /\ pc' = pc
    /\ UNCHANGED <<player, cancelled, procState, surfaceClosed, message, evPc,
                   sinks, calls, nInc, nDec, nLeft, opLog, lateBody, rolledAt,
                   rudderFrom, settingSeen, callFrom, lagOut, handed, failed, tickIn>>

\* ------------------------------------------------------ the five loops
\* Lines 73-88: writeLines classifies the velocity once, before its loop, and
\* creates its ticker.
writeLinesStart ==
    /\ procState = "running"
    /\ pc["writeLines"] = "start"
    /\ message' = StatusMessage
    /\ Arrive("writeLines")
    /\ UNCHANGED <<player, cancelled, procState, surfaceClosed, evPc, sinks,
                   calls, fires, nInc, nDec, nLeft, opLog, rolledAt,
                   rudderFrom, settingSeen, callFrom, lagOut, handed, failed, tickIn>>

\* Lines 92-95: one tick of writeLines writes message, as computed at the
\* start; rolledAt records the velocity at this tick.
writeLines(ok) ==
    /\ procState = "running"
    /\ pc["writeLines"] = "tick"
    /\ IF ok
       THEN /\ rolledOut' = message
            /\ rolledAt' = [ticked |-> TRUE, class |-> fpClass, v |-> velocity]
            /\ Arrive("writeLines")
            /\ UNCHANGED <<procState, surfaceClosed, failed>>
       ELSE /\ Panic("writeLines")
            /\ UNCHANGED <<rolledOut, rolledAt>>
    /\ UNCHANGED <<player, cancelled, message, evPc, displayOut,
                   settingGaugeOut, donutOut, rudderGaugeOut, calls, fires,
                   nInc, nDec, nLeft, opLog, rudderFrom, settingSeen, lagOut,
                   handed, tickIn, callFrom>>

\* Lines 112-121: the physical update, with jitter draw j and damping draw d.
\* A zero divisor makes the quotient +Inf or -Inf (NaN once multiplied by a
\* zero draw); a non-finite rpm makes the next quotient NaN.
PhysicalUpdate(j, d) ==
    IF fpClass # "finite"
    THEN /\ fpClass' = "nan"
         /\ UNCHANGED <<turbineRpmActualValue, acceleration, velocity>>
    ELSE IF LagDivisor(turbineRpmActualValue) = 0
    THEN /\ fpClass' = IF j = 0 THEN "nan"
                       ELSE IF turbineRpmSettingValue > turbineRpmActualValue
                       THEN "posinf" ELSE "neginf"
         /\ UNCHANGED <<turbineRpmActualValue, acceleration, velocity>>
    ELSE /\ fpClass' = "finite"
         /\ turbineRpmActualValue' =
                NewRpm(turbineRpmSettingValue, turbineRpmActualValue, j)
         /\ acceleration' = Accel(turbineRpmActualValue')
         /\ velocity' = NewVelocity(velocity, turbineRpmActualValue', d)

\* Faulty variant: the tick writes back the setpoint it read one tick earlier.
TickSetpointsStale ==
    /\ turbineRpmSettingValue' = settingSeen
    /\ UNCHANGED rudderAngle

\* Lines 108-126 assign neither setpoint.
TickSetpoints == UNCHANGED <<turbineRpmSettingValue, rudderAngle>>

\* Lines 108-126: one tick of updateTick.
updateTick(j, d, ok) ==
    /\ procState = "running"
    /\ pc["updateTick"] = "tick"
    /\ PhysicalUpdate(j, d)
    /\ TickSetpoints
    /\ settingSeen' = turbineRpmSettingValue
    /\ tickIn' = [done |-> TRUE, s |-> turbineRpmSettingValue,
                  a |-> turbineRpmActualValue, v |-> velocity]
    /\ IF ok
       THEN /\ displayOut' = TextOf(fpClass', velocity')
            /\ Arrive("updateTick")
            /\ UNCHANGED <<procState, surfaceClosed, failed>>
       ELSE /\ Panic("updateTick")
            /\ UNCHANGED displayOut
    /\ UNCHANGED <<inert, cancelled, message, evPc, settingGaugeOut, donutOut,
                   rudderGaugeOut, rolledOut, calls, fires, nInc, nDec, nLeft,
                   opLog, rolledAt, rudderFrom, callFrom, lagOut, handed>>

\* Lines 140-144: one tick of rpmSettingGauge.  Absolute rejects a value
\* outside [0, 200].
rpmSettingGauge(ok) ==
    /\ procState = "running"
    /\ pc["rpmSettingGauge"] = "tick"
    /\ settingSeen' = turbineRpmSettingValue
    /\ LET displayValue ==
               IntOf(Clamp(turbineRpmSettingValue, 0, MaxRpmSetting * Scale))
       IN  /\ handed' = [by |-> "rpmSettingGauge", value |-> displayValue,
                         tag |-> "none", class |-> "finite",
                         field |-> turbineRpmSettingValue]
           /\ IF ok /\ displayValue \in 0..MaxRpmSetting
              THEN /\ settingGaugeOut' = displayValue
                   /\ Arrive("rpmSettingGauge")
                   /\ UNCHANGED <<procState, surfaceClosed, failed>>
              ELSE /\ Panic("rpmSettingGauge")
                   /\ UNCHANGED settingGaugeOut
    /\ UNCHANGED <<player, cancelled, message, evPc, displayOut, donutOut,
                   rudderGaugeOut, rolledOut, calls, fires, nInc, nDec, nLeft,
                   opLog, rolledAt, rudderFrom, lagOut, tickIn, callFrom>>

\* Line 159: math.Max(math.Min(rpm, 200.0), 0) and its class.
DonutClass == IF fpClass = "nan" THEN "nan" ELSE "finite"
DonutValue ==
    IF fpClass = "finite"
    THEN Clamp(turbineRpmActualValue, 0, MaxRpmSetting * Scale)
    ELSE IF fpClass = "posinf" THEN MaxRpmSetting * Scale ELSE 0
\* Line 161: displayValue < 140 (false for NaN).
DonutColor ==
    IF DonutClass = "finite" /\ DonutValue < CriticalRpm * Scale
    THEN "yellow" ELSE "red"

\* Lines 158-169: one tick of rpmMeterDonut; n is what int(NaN) yields.
rpmMeterDonut(n, ok) ==
    /\ procState = "running"
    /\ pc["rpmMeterDonut"] = "tick"
    /\ LET shown == IF DonutClass = "nan" THEN n ELSE IntOf(DonutValue)
       IN  /\ handed' = [by |-> "rpmMeterDonut", value |-> shown,
                         tag |-> DonutColor, class |-> fpClass,
                         field |-> turbineRpmActualValue]
           /\ IF ok /\ shown \in 0..MaxRpmSetting
              THEN /\ donutOut' = [value |-> shown, color |-> DonutColor]
                   /\ Arrive("rpmMeterDonut")
                   /\ UNCHANGED <<procState, surfaceClosed, failed>>
              ELSE /\ Panic("rpmMeterDonut")
                   /\ UNCHANGED donutOut
    /\ UNCHANGED <<player, cancelled, message, evPc, displayOut,
                   settingGaugeOut, rudderGaugeOut, rolledOut, calls, fires,
                   nInc, nDec, nLeft, opLog, rolledAt, rudderFrom, settingSeen,
                   lagOut, tickIn, callFrom>>

\* Lines 183-187: one tick of rudderAngleGauge.
rudderAngleGauge(ok) ==
    /\ procState = "running"
    /\ pc["rudderAngleGauge"] = "tick"
    /\ LET displayValue == IntOf(Clamp(rudderAngle, 0, MaxRudder * Scale))
       IN  /\ handed' = [by |-> "rudderAngleGauge", value |-> displayValue,
                         tag |-> "none", class |-> "finite",
                         field |-> rudderAngle]
           /\ IF ok /\ displayValue \in 0..MaxRudder
              THEN /\ rudderGaugeOut' = displayValue
                   /\ Arrive("rudderAngleGauge")
                   /\ UNCHANGED <<procState, surfaceClosed, failed>>
              ELSE /\ Panic("rudderAngleGauge")
                   /\ UNCHANGED rudderGaugeOut
    /\ UNCHANGED <<player, cancelled, message, evPc, displayOut,
                   settingGaugeOut, donutOut, rolledOut, calls, fires, nInc,
                   nDec, nLeft, opLog, rolledAt, rudderFrom, settingSeen,
                   lagOut, tickIn, callFrom>>

\* ------------------------------------------------- the button callbacks
\* Line 290 and lines 291-293.
PlusStep(x) == x + ThrottleStep * Scale
PlusClamp(x) == IF x > MaxRpmSetting * Scale THEN MaxRpmSetting * Scale ELSE x
\* Faulty variant: "- 10" takes off 9.
MinusStepShort(x) == x - (ThrottleStep - 1) * Scale
\* Line 301 and lines 302-304.
MinusStep(x) == x - ThrottleStep * Scale
MinusClamp(x) == IF x < 0 THEN 0 ELSE x
\* Faulty variant: "L" takes off 2 instead of 2.5.
RudderLeftCoarse(x) == Clamp(x - 2 * Scale, 0, MaxRudder * Scale)
\* Line 342.
RudderLeftValue(x) ==
    Clamp(x - RDiv(RudderStepTimes10 * Scale, 10), 0, MaxRudder * Scale)

\* A callback returning an error ends termdash.Run with that error; main
\* panics (lines 429-431) and its deferred t.Close() (line 215) runs.
CallbackError ==
    /\ procState' = "aborted"
    /\ surfaceClosed' = TRUE

\* Line 290: the callback of "+ 10" stores the sum.
buttonTurbinePlusStore ==
    /\ procState = "running"
    /\ evPc = "idle"
    /\ turbineRpmSettingValue' = PlusStep(turbineRpmSettingValue)
    /\ callFrom' = turbineRpmSettingValue
    /\ evPc' = "plusClamp"
    /\ calls' = calls + 1
    /\ UNCHANGED <<inert, physical, rudderAngle, cancelled, procState,
                   surfaceClosed, pc, tickReady, message, sinks, fires, nInc,
                   nDec, nLeft, opLog, lateBody, rolledAt, rudderFrom,
                   settingSeen, lagOut, handed, failed, tickIn>>

\* Lines 291-296: the clamp, then the segment-display write.
buttonTurbinePlus(ok) ==
    /\ procState = "running"
    /\ evPc = "plusClamp"
    /\ turbineRpmSettingValue' = PlusClamp(turbineRpmSettingValue)
    /\ evPc' = "idle"
    /\ nInc' = nInc + 1
    /\ opLog' = <<opLog[2], [op |-> "inc", from |-> callFrom]>>
    /\ IF ok
       THEN /\ displayOut' = VelocityText
            /\ UNCHANGED <<procState, surfaceClosed>>
       ELSE /\ CallbackError
            /\ UNCHANGED displayOut
    /\ UNCHANGED <<inert, physical, rudderAngle, cancelled, pc, tickReady,
                   message, settingGaugeOut, donutOut, rudderGaugeOut,
                   rolledOut, calls, fires, nDec, nLeft, lateBody, rolledAt,
                   rudderFrom, settingSeen, callFrom, lagOut, handed, failed, tickIn>>

\* Line 301: the callback of "- 10" stores the difference.
buttonTurbineMinusStore ==
    /\ procState = "running"
    /\ evPc = "idle"
    /\ turbineRpmSettingValue' = MinusStep(turbineRpmSettingValue)
    /\ callFrom' = turbineRpmSettingValue
    /\ evPc' = "minusClamp"
    /\ calls' = calls + 1
    /\ nDec' = nDec + 1
    /\ UNCHANGED <<inert, physical, rudderAngle, cancelled, procState,
                   surfaceClosed, pc, tickReady, message, sinks, fires, nInc,
                   nLeft, opLog, lateBody, rolledAt, rudderFrom, settingSeen,
                   lagOut, handed, failed, tickIn>>

\* Lines 302-307: the clamp, then the segment-display write.
buttonTurbineMinus(ok) ==
    /\ procState = "running"
    /\ evPc = "minusClamp"
    /\ turbineRpmSettingValue' = MinusClamp(turbineRpmSettingValue)
    /\ evPc' = "idle"
    /\ opLog' = <<opLog[2], [op |-> "dec", from |-> callFrom]>>
    /\ IF ok
       THEN /\ displayOut' = VelocityText
            /\ UNCHANGED <<procState, surfaceClosed>>
       ELSE /\ CallbackError
            /\ UNCHANGED displayOut
    /\ UNCHANGED <<inert, physical, rudderAngle, cancelled, pc, tickReady,
                   message, settingGaugeOut, donutOut, rudderGaugeOut,
                   rolledOut, calls, fires, nInc, nDec, nLeft, lateBody,
                   rolledAt, rudderFrom, settingSeen, callFrom, lagOut, handed, failed, tickIn>>

\* Lines 339-343: the callback of "L".
rudderLeftButtonObj ==
    /\ procState = "running"
    /\ evPc = "idle"
    /\ rudderAngle' = RudderLeftValue(rudderAngle)
    /\ rudderFrom' = rudderAngle
    /\ nLeft' = nLeft + 1
    /\ calls' = calls + 1
    /\ UNCHANGED <<inert, physical, turbineRpmSettingValue, runtime, sinks,
                   fires, nInc, nDec, opLog, lateBody, rolledAt, settingSeen,
                   callFrom, lagOut, handed, failed, tickIn>>

\* ------------------------------------------------------------ lifecycle
Keys == {"q", "Q", "x"}

\* context.CancelFunc (line 217): closes ctx.Done() once; every goroutine
\* blocked in its select is woken on that case and returns.
cancel ==
    /\ cancelled' = TRUE
    /\ pc' = [l \in Loops |-> IF pc[l] = "blocked" THEN "returned" ELSE pc[l]]

\* Lines 423-427: the keyboard subscriber.
quitter(k) ==
    /\ procState = "running"
    /\ IF k \in {"q", "Q"} THEN cancel ELSE UNCHANGED <<cancelled, pc>>
    /\ UNCHANGED <<player, procState, surfaceClosed, tickReady, message, evPc,
                   sinks, history>>

\* Lines 429-434 and 215: termdash.Run returns once ctx is done; main
\* returns, its deferred t.Close() runs and the process exits, whatever the
\* goroutines are doing.
mainReturn ==
    /\ procState = "running"
    /\ cancelled
    /\ procState' = "exited"
    /\ surfaceClosed' = TRUE
    /\ UNCHANGED <<player, cancelled, pc, tickReady, message, evPc, sinks,
                   history>>

\* ------------------------------------------------------- specifications
\* The whole program, with few button presses and ticker firings.
Next ==
    \/ \E l \in Loops : fires < MaxFires /\ fires' = fires + 1 /\ TimerFire(l)
    \/ writeLinesStart
    \/ \E ok \in BOOLEAN : writeLines(ok)
    \/ \E j \in JitterDraws, d \in DampDraws, ok \in BOOLEAN : updateTick(j, d, ok)
    \/ \E ok \in BOOLEAN : rpmSettingGauge(ok)
    \/ \E n \in IntOfNaN, ok \in BOOLEAN : rpmMeterDonut(n, ok)
    \/ \E ok \in BOOLEAN : rudderAngleGauge(ok)
    \/ calls < MaxCalls /\ buttonTurbinePlusStore
    \/ \E ok \in BOOLEAN : buttonTurbinePlus(ok)
    \/ calls < MaxCalls /\ buttonTurbineMinusStore
    \/ \E ok \in BOOLEAN : buttonTurbineMinus(ok)
    \/ calls < MaxCalls /\ rudderLeftButtonObj
    \/ \E k \in Keys : quitter(k)
    \/ mainReturn

Spec == Init /\ [][Next]_vars

\* The throttle buttons, pressed often, beside one tick of updateTick.
NextThrottle ==
    \/ fires < MaxActuatorTicks /\ fires' = fires + 1 /\ TimerFire("updateTick")
    \/ \E j \in JitterDraws, d \in DampDraws : updateTick(j, d, TRUE)
    \/ nInc < MaxPlus /\ buttonTurbinePlusStore
    \/ buttonTurbinePlus(TRUE)
    \/ nDec < MaxMinus /\ buttonTurbineMinusStore
    \/ buttonTurbineMinus(TRUE)

SpecThrottle == Init /\ [][NextThrottle]_vars

\* "+ 10" and "L", pressed often, beside one tick of updateTick.
NextActuators ==
    \/ fires < MaxActuatorTicks /\ fires' = fires + 1 /\ TimerFire("updateTick")
    \/ \E j \in JitterDraws, d \in DampDraws : updateTick(j, d, TRUE)
    \/ nInc < MaxPlus /\ buttonTurbinePlusStore
    \/ buttonTurbinePlus(TRUE)
    \/ nLeft < MaxLeft /\ rudderLeftButtonObj

SpecActuators == Init /\ [][NextActuators]_vars

\* The classification of lines 74-86 applied to every velocity of a range.
InitClassify ==
    /\ \E v \in 0 .. MaxVelocityIn * Scale : PlayerWith(0, 0, v)
    /\ RuntimeInit
    /\ HistoryInit

SpecClassify == InitClassify /\ [][writeLinesStart]_vars

\* The setpoints the buttons leave behind: the multiples of 10 in [0, 200].
SettingValues ==
    {k * ThrottleStep * Scale : k \in 0 .. (MaxRpmSetting \div ThrottleStep)}

\* The lag step of line 112 applied to every setpoint and every rpm of a
\* range.
InitLag ==
    /\ \E s \in SettingValues, a \in 0 .. MaxLagRpm * Scale : PlayerWith(s, a, 0)
    /\ RuntimeInit
    /\ HistoryInit

lagStepApplied ==
    /\ lagOut = <<>>
    /\ lagOut' = <<LagStep(turbineRpmSettingValue, turbineRpmActualValue)>>
    /\ UNCHANGED <<player, runtime, sinks, calls, fires, nInc, nDec, nLeft,
                   opLog, lateBody, rolledAt, rudderFrom, settingSeen,
                   callFrom, handed, failed, tickIn>>

SpecLag == InitLag /\ [][lagStepApplied]_vars

\* Full throttle: "+ 10" has been pressed twenty times, and from then on only
\* updateTick runs, every draw being the lowest of its range.  The ticker
\* fires every 16 ms and the goroutine it wakes runs: weak fairness.
LastPlus(n) == [op |-> "inc", from |-> (n - 1) * ThrottleStep * Scale]

InitFull ==
    /\ PlayerWith(MaxRpmSetting * Scale, 0, 0)
    /\ RuntimeInit
    /\ HistoryWith(MaxRpmSetting \div ThrottleStep,
                   <<LastPlus((MaxRpmSetting \div ThrottleStep) - 1),
                     LastPlus(MaxRpmSetting \div ThrottleStep)>>)

NextFull ==
    \/ UNCHANGED fires /\ TimerFire("updateTick")
    \/ updateTick(0, DampLow, TRUE)

SpecFull == InitFull /\ [][NextFull]_vars /\ WF_vars(NextFull)

\* The lifecycle: the five loops with working sinks, the keyboard and main.
\* The Go scheduler runs every runnable goroutine, main included, while the
\* process lives: weak fairness of each loop's step and of main's return.
LoopStep(l) ==
    \/ l = "writeLines" /\ (writeLinesStart \/ writeLines(TRUE))
    \/ l = "updateTick" /\ \E j \in JitterDraws, d \in DampDraws : updateTick(j, d, TRUE)
    \/ l = "rpmSettingGauge" /\ rpmSettingGauge(TRUE)
    \/ l = "rpmMeterDonut" /\ \E n \in IntOfNaN : rpmMeterDonut(n, TRUE)
    \/ l = "rudderAngleGauge" /\ rudderAngleGauge(TRUE)

NextLifecycle ==
    \/ \E l \in Loops : fires < MaxFires /\ fires' = fires + 1 /\ TimerFire(l)
    \/ \E l \in Loops : LoopStep(l)
    \/ \E k \in Keys : quitter(k)
    \/ mainReturn

SpecLifecycle ==
    /\ Init
    /\ [][NextLifecycle]_vars
    /\ \A l \in Loops : WF_vars(LoopStep(l))
    /\ WF_vars(mainReturn)

\* A drive that ends in a "- 10" pressed at setpoint 0: "+ 10" is pressed
\* before the first firing of updateTick's ticker, "- 10" after the first
\* firing and again after the sixteenth.  The jitter draw is free in the
\* first ticks and the lowest afterwards, the damping draw is the lowest,
\* every sink works, and the donut's ticker fires after the last tick.
MinusAfter == {1, 16}
DriveDraws == IF fires <= MaxFreeDraws THEN JitterDraws ELSE {0}

NextDrive ==
    \/ fires < MaxDriveTicks /\ fires' = fires + 1 /\ TimerFire("updateTick")
    \/ \E j \in DriveDraws : updateTick(j, DampLow, TRUE)
    \/ fires = MaxDriveTicks /\ UNCHANGED fires /\ TimerFire("rpmMeterDonut")
    \/ \E n \in IntOfNaN : rpmMeterDonut(n, TRUE)
    \/ fires = 0 /\ nInc < MaxDrivePlus /\ buttonTurbinePlusStore
    \/ buttonTurbinePlus(TRUE)
    \/ fires \in MinusAfter /\ nDec < MaxDriveMinus /\ buttonTurbineMinusStore
    \/ buttonTurbineMinus(TRUE)

SpecDrive == Init /\ [][NextDrive]_vars

\* ---------------------------------------------------------------- claims
SettingRange == 0 .. MaxRpmSetting * Scale
RudderRange == 0 .. MaxRudder * Scale

\* C1: every value of turbineRpmSettingValue that a loop reads (updateTick at
\* line 112, rpmSettingGauge at line 141) lies in [0, 200]: no out-of-range
\* setpoint is visible between the +/-10 step and the clamp.
C1_SetpointReadInRange == settingSeen \in SettingRange

\* A step of the program that does what rudderRight() is said to do.
RudderRightStep ==
    /\ Next
    /\ rudderAngle' = Clamp(rudderAngle + RDiv(RudderStepTimes10 * Scale, 10),
                            0, MaxRudder * Scale)
\* C2: rudderAngle stays in [0, 70], and a rudderRight() operation exists:
\* whenever a button callback can run, some step of the program sets
\* rudderAngle to clamp(rudderAngle + 2.5, 0, 70).
C2_RudderBothWays ==
    /\ rudderAngle \in RudderRange
    /\ (procState = "running" /\ evPc = "idle" /\ calls < MaxCalls
        /\ rudderAngle < MaxRudder * Scale)
           => ENABLED RudderRightStep

\* The band table of the status message, by its lower bounds.
BandLow == <<0, 1 * Scale, 10 * Scale, 50 * Scale, 100 * Scale, 150 * Scale>>
BandLabel == <<"Stopped.", "Nearly Stopped.", "Moving forward at low speed.",
               "Moving forward.", "Moving forward at high speed.",
               "Full speed forward.">>
InBand(b, v) == BandLow[b] <= v /\ (b = 6 \/ v < BandLow[b + 1])
\* C3: the classification is the partition of the velocities >= 0 into the
\* six bands [0,1), [1,10), [10,50), [50,100), [100,150), [150,oo): exactly
\* one band holds the velocity, the label computed is that band's, and each
\* bound belongs to the band above it.
C3_ClassificationIsPartition ==
    message # NoMessage =>
        /\ Cardinality({b \in 1..6 : InBand(b, velocity)}) = 1
        /\ \A b \in 1..6 : InBand(b, velocity) => message.label = BandLabel[b]
        /\ \A b \in 2..6 : velocity = BandLow[b] => message.label = BandLabel[b]
C3_Witness ==
    /\ message.label = "Moving forward at low speed."
    /\ velocity = 10 * Scale

\* C4: the message a tick of writeLines forwards carries the label of the
\* band holding the velocity at that tick, and that velocity, in all bands.
C4_StatusFollowsVelocity ==
    (rolledAt.ticked /\ rolledAt.class = "finite") =>
        /\ rolledOut.label = VelocityLabel(rolledAt.v)
        /\ rolledOut.hasValue
        /\ rolledOut.digits = FormatF4(rolledAt.v)

\* C5: a completed "+ 10" followed by a completed "- 10", the first one
\* pressed at a setpoint s in [10, 190], leaves the setpoint at s, whatever
\* ticks interleave.
C5_PlusThenMinusRestores ==
    (/\ evPc = "idle"
     /\ opLog[1].op = "inc"
     /\ opLog[2].op = "dec"
     /\ opLog[1].from >= 10 * Scale
     /\ opLog[1].from <= 190 * Scale)
        => turbineRpmSettingValue = opLog[1].from
C5_Witness ==
    /\ evPc = "idle"
    /\ opLog[1] = [op |-> "inc", from |-> 190 * Scale]
    /\ opLog[2].op = "dec"
    /\ settingSeen = 200 * Scale

\* C6: no button press is lost beside the ticks: after n <= 20 completed
\* presses of "+ 10" and none of "- 10" the setpoint is 10 * n, and after k
\* presses of "L" the rudder angle is 35 - 2.5 * k while that is >= 0.
C6_NoPressLost ==
    /\ (evPc = "idle" /\ nDec = 0 /\ nInc <= 20)
           => turbineRpmSettingValue = nInc * ThrottleStep * Scale
    /\ (InitRudder * Scale * 10 >= nLeft * RudderStepTimes10 * Scale)
           => rudderAngle * 10 =
                  InitRudder * Scale * 10 - nLeft * RudderStepTimes10 * Scale
C6_Witness ==
    /\ evPc = "idle"
    /\ nInc = 20
    /\ nLeft = 2
    /\ settingSeen = 110 * Scale
    /\ turbineRpmActualValue > 0

\* C7: at full throttle turbineRpmActualValue ends within a tolerance (10 is
\* taken here) of 200 and velocity ends >= 150, and both stay there.
C7_FullThrottleConverges ==
    <>[](/\ Abs(turbineRpmActualValue - MaxRpmSetting * Scale) <= 10 * Scale
         /\ velocity >= 150 * Scale)

\* The inputs of the lag step.
LagS == turbineRpmSettingValue
LagA == turbineRpmActualValue
C10_CancelSeenAtNextSelect == lateBody = {}

\* C11: the process exits (main returns) only after each of the five loops
\* has seen the cancellation and returned: at the exit no loop is waiting in
\* its select or inside a tick body.
C11_ExitAfterAllReturned ==
    procState = "exited" => \A l \in Loops : pc[l] = "returned"

AllReturned == \A l \in Loops : pc[l] = "returned"
\* C12: under fair scheduling every loop has returned some time after the
\* quit key raised the cancellation; a loop returns for no other reason than
\* the cancellation; a quit key pressed again changes nothing; and a loop
\* that has returned stays returned.
C12_QuitReturnsEveryLoop ==
    /\ [](\A l \in Loops : pc[l] = "returned" => cancelled)
    /\ [][\A k \in Keys : (cancelled /\ quitter(k)) => UNCHANGED vars]_vars
    /\ [][\A l \in Loops : pc[l] = "returned" => pc'[l] = "returned"]_vars
    /\ (cancelled ~> AllReturned)

\* The steps of the three kinds of writer.
PhysicalTick ==
    \E j \in JitterDraws, d \in DampDraws, ok \in BOOLEAN : updateTick(j, d, ok)
ThrottleOperation ==
    \/ buttonTurbinePlusStore
    \/ buttonTurbineMinusStore
    \/ \E ok \in BOOLEAN : buttonTurbinePlus(ok) \/ buttonTurbineMinus(ok)
SamplerTick ==
    \/ writeLinesStart
    \/ \E ok \in BOOLEAN :
           writeLines(ok) \/ rpmSettingGauge(ok) \/ rudderAngleGauge(ok)
    \/ \E n \in IntOfNaN, ok \in BOOLEAN : rpmMeterDonut(n, ok)
\* C13: single-writer discipline.  A physical-update tick leaves both
\* setpoints unchanged; a throttle operation leaves the rpm, the
\* acceleration, the velocity and the rudder angle unchanged; the rudder
\* operation leaves them and the rpm setpoint unchanged; a sampler tick
\* leaves every Player field unchanged; the position, heading and buoyancy
\* fields never change.  Conversely a physical field changes only in a
\* physical-update tick and a setpoint only in its own operation.
C13_SingleWriter ==
    [][/\ PhysicalTick => UNCHANGED <<turbineRpmSettingValue, rudderAngle>>
       /\ ThrottleOperation => UNCHANGED <<physical, rudderAngle>>
       /\ rudderLeftButtonObj => UNCHANGED <<physical, turbineRpmSettingValue>>
       /\ SamplerTick => UNCHANGED player
       /\ UNCHANGED inert
       /\ physical' # physical => pc["updateTick"] = "tick" /\ tickIn'.done
       /\ turbineRpmSettingValue' # turbineRpmSettingValue => evPc' # evPc
       /\ rudderAngle' # rudderAngle => nLeft' = nLeft + 1]_vars
C13_Witness ==
    /\ tickIn.done
    /\ turbineRpmActualValue > 0
    /\ nLeft = 1
    /\ handed.by = "rpmMeterDonut"
    /\ handed.value > 0

\* C14: whenever updateTick is about to evaluate the lag formula of line 112,
\* also after a tick has run between the store and the clamp of a "- 10",
\* the divisor (turbineRpmActualValue + 1) * 5 is not zero.
C14_LagDivisorNonZero ==
    (procState = "running" /\ pc["updateTick"] = "tick" /\ fpClass = "finite")
        => LagDivisor(turbineRpmActualValue) # 0

\* C15: turbineRpmActualValue >= 0 and velocity >= 0 in every reachable
\* state, whatever the interleaving of the callbacks with the ticks and
\* whatever the draws.
C15_RpmAndVelocityNonNegative ==
    fpClass = "finite" => (turbineRpmActualValue >= 0 /\ velocity >= 0)

\* The maximum each sampler announces to its sink (lines 142, 162 and 184).
SinkMax(l) == IF l = "rudderAngleGauge" THEN MaxRudder ELSE MaxRpmSetting
\* C16: whatever the sampled field holds, the value a sampler hands to its
\* sink lies in [0, max], max being 200 for rpmSettingGauge and rpmMeterDonut
\* and 70 for rudderAngleGauge; and rpmMeterDonut tags the value red
\* (critical) exactly when the rpm clamped to [0, 200] is >= 140, yellow
\* (nominal) exactly when it is < 140.
C16_SamplerValuesInRange ==
    handed.by # "none" =>
        /\ handed.value \in 0 .. SinkMax(handed.by)
        /\ handed.by = "rpmMeterDonut" =>
               /\ handed.class = "finite"
                     => (handed.tag = "red" <=>
                            Clamp(handed.field, 0, MaxRpmSetting * Scale)
                                >= CriticalRpm * Scale)
               /\ handed.class = "posinf" => handed.tag = "red"
               /\ handed.class = "neginf" => handed.tag = "yellow"
               /\ handed.class = "nan" => handed.tag # "red"

\* C17: a display-sink failure in a loop leads to an orderly shutdown: when
\* the failure has taken effect the cancellation is raised and every other
\* loop has returned; the process does not abort with loops still running.
C17_SinkFailureShutsDownOrderly ==
    failed # "none" =>
        /\ cancelled
        /\ \A l \in Loops \ {failed} : pc[l] = "returned"

\* C18: on every path by which the process ends once the surface is open,
\* the quit key or a sink failure, t.Close() has run before the process ends.
C18_SurfaceReleasedBeforeExit ==
    procState \in {"exited", "aborted"} => surfaceClosed

\* C19: the steps of a tick run in the order lag, decay, jitter,
\* acceleration, integration, damping.  After a completed tick the rpm is the
\* lag step from the setpoint read in that tick, decayed and jittered; the
\* acceleration is that rpm divided by 10; the velocity is the one before
\* the tick plus a tenth of that new acceleration, damped afterwards, for
\* some admissible pair of draws.  The acceleration is derived from the rpm
\* at all times: nothing else sets it.
C19_TickStepsInOrder ==
    fpClass = "finite" =>
        /\ acceleration = Accel(turbineRpmActualValue)
        /\ tickIn.done =>
               /\ \E j \in JitterDraws :
                      turbineRpmActualValue =
                          Jitter(Decay(LagStep(tickIn.s, tickIn.a)), j)
               /\ \E d \in DampDraws :
                      velocity = Damp(Integrate(tickIn.v, acceleration), d)
        /\ ~tickIn.done =>
               (turbineRpmActualValue = 0 /\ acceleration = 0 /\ velocity = 0)
C19_Witness ==
    /\ tickIn.done
    /\ tickIn.a > 0
    /\ tickIn.v > 0
    /\ tickIn.s = 0
    /\ turbineRpmActualValue < tickIn.a
    /\ velocity > tickIn.v
    /\ acceleration > 0

=============================================================================
